---- MODULE Spec2Model ----
(***************************************************************************)
(* ParkingLotController (src/ParkingLotController.py): two parking levels, *)
(* an entry and an exit sensor per level, immediate and validated          *)
(* occupancy, and the NORMAL / FULL_ALERT state model.  The millisecond    *)
(* clock ticks_ms() is the variable now; every handler reads it once.      *)
(***************************************************************************)
EXTENDS Integers, Sequences, FiniteSets, TLC

\* ---------------------------------------------------------------- bounds
\* Capacity every level is configured with (the source configures 10).
MaxCapacity == 1
\* Real time, in ms, the model lets pass after construction: one dwell window
\* under Spec, two under SpecLong.
MaxTime == 5000
MaxLongTime == 10000
\* Amounts of time, in ms, that pass between two steps of the controller.
Steps == {5000}

\* ------------------------------------------------------------- constants
NORMAL == 0
FULL_ALERT == 1
sensor_cooldown_ms == 1000
entry_confirm_delay_ms == 5000
flash_period_ms == 500
L1_level_id_db == 101
L2_level_id_db == 102
\* time.ticks_ms() counts modulo 2^30 on MicroPython; ticks_diff is the
\* signed difference in that ring.
TICKS_PERIOD == 2^30
TICKS_HALF == TICKS_PERIOD \div 2
\* A timestamp field holding Python's None.
None == -1

Levels == {"L1", "L2"}
Directions == {"entry", "exit"}
GREEN == "GREEN"
RED == "RED"
DIM_RED == "DIM_RED"
\* The LCD and the light strip before the controller wrote to them.
Blank == <<>>
Unset == "UNSET"

EventName(l, d, k) == l \o "_" \o d \o "_" \o k
SensorEvents ==
    { EventName(l, d, k) : l \in Levels, d \in Directions, k \in {"trip", "untrip"} }

Events == SensorEvents \cup {"reset_press"}

VARIABLES
    running,           \* run() has started the state model
    state,             \* StateModel's current state
    garage_full,       \* _garage_full
    flash_on,          \* _flash_on
    last_flash_ms,     \* _last_flash_ms
    entry_tripped,     \* _L1_entry_tripped, _L2_entry_tripped
    exit_tripped,      \* _L1_exit_tripped, _L2_exit_tripped
    occupancy,         \* _L1_occupancy, _L2_occupancy   (immediate)
    valid_occupancy,   \* _L1_valid_occupancy, _L2_valid_occupancy
    capacity,          \* _L1_capacity, _L2_capacity
    last_entry_ms,     \* _last_L1_entry_ms, _last_L2_entry_ms
    last_exit_ms,      \* _last_L1_exit_ms, _last_L2_exit_ms
    pending_entry,     \* _L1_pending_entry, _L2_pending_entry
    pending_start_ms,  \* _L1_pending_start_ms, _L2_pending_start_ms
    display,           \* what the LCD shows: <<L1 avail, L2 avail>>
    strip,             \* last colour commanded on the light strip
    now,               \* ticks_ms()
    elapsed,           \* real time since construction
    event,             \* the input the last step handled
    relay,             \* relay calls made by the last step
    raised,            \* custom events the last step passed to processEvent
    entered,           \* states whose entry action the last step ran
    exc,               \* an exception escaped the last handler
    flash_changed_ms,  \* clock reading when _flash_on last changed (history)
    dal_call,          \* DAL.send_sensor_event: the arguments and the network
    dal_out,           \* DAL.send_sensor_event: what the call did
    fb_running,        \* FeedbackController: run() has started the model
    fb_state,          \* FeedbackController: StateModel's current state
    fb_positive,       \* FeedbackStats._positive
    fb_negative,       \* FeedbackStats._negative
    fb_alarmon,        \* FeedbackController._alarmon
    fb_needs_display,  \* FeedbackController._feedback_needs_display
    fb_timer,          \* seconds the SoftwareTimer was started with, 0: idle
    fb_lcd,            \* what the LCD of the feedback station shows
    fb_buzzer,         \* the buzzer sounds
    fb_event,          \* the input the last step of the station handled
    fb_entered         \* states whose entry action that step ran

vars == << running, state, garage_full, flash_on, last_flash_ms, entry_tripped,
           exit_tripped, occupancy, valid_occupancy, capacity, last_entry_ms,
           last_exit_ms, pending_entry, pending_start_ms, display, strip, now,
           elapsed, event, relay, raised, entered, exc, flash_changed_ms,
           dal_call, dal_out, fb_running, fb_state, fb_positive, fb_negative,
           fb_alarmon, fb_needs_display, fb_timer, fb_lcd, fb_buzzer, fb_event,
           fb_entered >>

\* The variables of the parking controller, of the DAL call and of the
\* feedback station.
lotvars == << running, state, garage_full, flash_on, last_flash_ms, entry_tripped,
              exit_tripped, occupancy, valid_occupancy, capacity, last_entry_ms,
              last_exit_ms, pending_entry, pending_start_ms, display, strip, now,
              elapsed, event, relay, raised, entered, exc, flash_changed_ms >>
dalvars == << dal_call, dal_out >>
fbvars == << fb_running, fb_state, fb_positive, fb_negative, fb_alarmon,
             fb_needs_display, fb_timer, fb_lcd, fb_buzzer, fb_event, fb_entered >>

\* The controller object at the start of a handler: its fields, and the
\* empty logs of what the handler is about to do.
Self ==
    [ state |-> state, garage_full |-> garage_full, flash_on |-> flash_on,
      last_flash_ms |-> last_flash_ms, entry_tripped |-> entry_tripped,
      exit_tripped |-> exit_tripped, occupancy |-> occupancy,
      valid_occupancy |-> valid_occupancy, last_entry_ms |-> last_entry_ms,
      last_exit_ms |-> last_exit_ms, pending_entry |-> pending_entry,
      pending_start_ms |-> pending_start_ms, display |-> display, strip |-> strip,
      relay |-> <<>>, raised |-> <<>>, entered |-> <<>>, exc |-> FALSE ]

\* The fields of the object s become the next state.
Becomes(s) ==
    /\ state' = s.state
    /\ garage_full' = s.garage_full
    /\ flash_on' = s.flash_on
    /\ last_flash_ms' = s.last_flash_ms
    /\ entry_tripped' = s.entry_tripped
    /\ exit_tripped' = s.exit_tripped
    /\ occupancy' = s.occupancy
    /\ valid_occupancy' = s.valid_occupancy
    /\ last_entry_ms' = s.last_entry_ms
    /\ last_exit_ms' = s.last_exit_ms
    /\ pending_entry' = s.pending_entry
    /\ pending_start_ms' = s.pending_start_ms
    /\ display' = s.display
    /\ strip' = s.strip
    /\ relay' = s.relay
    /\ raised' = s.raised
    /\ entered' = s.entered
    /\ exc' = s.exc

\* ------------------------------------------------------------- helpers
ticks_diff(a, b) == ((a - b + TICKS_HALF) % TICKS_PERIOD) - TICKS_HALF

\* Mutant: the cooldown comparison made inclusive.
cooldown_ok_inclusive(last_ts, now_ms) ==
    IF last_ts = None THEN TRUE
    ELSE ticks_diff(now_ms, last_ts) >= sensor_cooldown_ms

cooldown_ok(last_ts, now_ms) ==
    IF last_ts = None THEN TRUE
    ELSE ticks_diff(now_ms, last_ts) > sensor_cooldown_ms

\* Mutant: level 2 mapped to the backend id of level 1.
level_id_db_same(l) == L1_level_id_db

level_id_db(l) == IF l = "L1" THEN L1_level_id_db ELSE L2_level_id_db

\* What a call returns when it raises, and the response the controller's
\* backend gives (the controller only logs it).
NoData == ""
Accepted == "{}"

\* Mutant: the sensor type is not validated.
send_sensor_event_unchecked(level_id, sensor_type, net_ok, data) ==
    [raises |-> ~net_ok,
     error |-> IF net_ok THEN "" ELSE "NetError",
     posted |-> << [level_id |-> level_id, sensor_type |-> sensor_type] >>,
     returned |-> IF net_ok THEN data ELSE NoData]

\* DAL.send_sensor_event: the requests posted, whether the call raises and
\* with what, and the value returned.
\* net_ok: Net.postJson returns the response data instead of raising.
send_sensor_event(level_id, sensor_type, net_ok, data) ==
    IF sensor_type \notin {"entry", "exit"}
    THEN [raises |-> TRUE, error |-> "ValueError", posted |-> <<>>,
          returned |-> NoData]
    ELSE [raises |-> ~net_ok,
          error |-> IF net_ok THEN "" ELSE "NetError",
          posted |-> << [level_id |-> level_id, sensor_type |-> sensor_type] >>,
          returned |-> IF net_ok THEN data ELSE NoData]

\* Mutant: the exception of a failed call is not caught.
record_sensor_event_uncaught(s, level_id, sensor_type, net_ok) ==
    LET r == send_sensor_event(level_id, sensor_type, net_ok, Accepted)
    IN  [s EXCEPT !.relay = @ \o
            << [level_id |-> level_id, sensor_type |-> sensor_type, ok |-> ~r.raises] >>,
                  !.exc = r.raises]

\* _record_sensor_event: one call of the DAL, any exception caught.
record_sensor_event(s, level_id, sensor_type, net_ok) ==
    LET r == send_sensor_event(level_id, sensor_type, net_ok, Accepted)
    IN  [s EXCEPT !.relay = @ \o
            << [level_id |-> level_id, sensor_type |-> sensor_type, ok |-> ~r.raises] >>]

RECURSIVE processEvent(_, _, _, _)

\* Mutant: the garage counts as full when any one level is full.
garage_is_full_any(s) ==
    \/ s.valid_occupancy["L1"] >= capacity["L1"]
    \/ s.valid_occupancy["L2"] >= capacity["L2"]

garage_is_full(s) ==
    /\ s.valid_occupancy["L1"] >= capacity["L1"]
    /\ s.valid_occupancy["L2"] >= capacity["L2"]

\* Mutant: no early return when the fullness did not change.
update_garage_lights_level(s, now_ms) ==
    LET full == garage_is_full(s)
        s1 == [s EXCEPT !.garage_full = full]
    IN  IF full
        THEN [processEvent(s1, "garage_full", now_ms, TRUE)
                 EXCEPT !.flash_on = TRUE, !.strip = RED]
        ELSE [processEvent(s1, "garage_not_full", now_ms, TRUE)
                 EXCEPT !.flash_on = FALSE, !.strip = GREEN]

\* Mutant: leaving FULL_ALERT keeps the flash phase as it was.
update_garage_lights_keeps_phase(s, now_ms) ==
    LET full == garage_is_full(s)
    IN  IF full = s.garage_full THEN s
        ELSE LET s1 == [s EXCEPT !.garage_full = full]
             IN  IF full
                 THEN [processEvent(s1, "garage_full", now_ms, TRUE)
                          EXCEPT !.flash_on = TRUE, !.strip = RED]
                 ELSE [processEvent(s1, "garage_not_full", now_ms, TRUE)
                          EXCEPT !.strip = GREEN]

update_garage_lights(s, now_ms) ==
    LET full == garage_is_full(s)
    IN  IF full = s.garage_full THEN s
        ELSE LET s1 == [s EXCEPT !.garage_full = full]
             IN  IF full
                 THEN [processEvent(s1, "garage_full", now_ms, TRUE)
                          EXCEPT !.flash_on = TRUE, !.strip = RED]
                 ELSE [processEvent(s1, "garage_not_full", now_ms, TRUE)
                          EXCEPT !.flash_on = FALSE, !.strip = GREEN]

show_validated_occupancy(s, now_ms) ==
    update_garage_lights(
        [s EXCEPT !.display = << capacity["L1"] - s.valid_occupancy["L1"],
                                 capacity["L2"] - s.valid_occupancy["L2"] >>],
        now_ms)

\* Mutant: the reset clears the fields but does not re-evaluate the lights.
reset_garage_no_sync(s, now_ms) ==
    [s EXCEPT !.occupancy = [l \in Levels |-> 0],
              !.valid_occupancy = [l \in Levels |-> 0],
              !.pending_entry = [l \in Levels |-> FALSE],
              !.pending_start_ms = [l \in Levels |-> None],
              !.entry_tripped = [l \in Levels |-> FALSE],
              !.exit_tripped = [l \in Levels |-> FALSE],
              !.flash_on = FALSE]

reset_garage(s, now_ms) ==
    show_validated_occupancy(
        [s EXCEPT !.occupancy = [l \in Levels |-> 0],
                  !.valid_occupancy = [l \in Levels |-> 0],
                  !.pending_entry = [l \in Levels |-> FALSE],
                  !.pending_start_ms = [l \in Levels |-> None],
                  !.entry_tripped = [l \in Levels |-> FALSE],
                  !.exit_tripped = [l \in Levels |-> FALSE],
                  !.garage_full = TRUE,
                  !.flash_on = FALSE],
        now_ms)

stateEntered(s, st, ev, now_ms) ==
    LET s1 == [s EXCEPT !.entered = Append(@, st)]
    IN  IF st \in {NORMAL, FULL_ALERT} THEN show_validated_occupancy(s1, now_ms) ELSE s1

stateLeft(s, st, ev) == s

\* Mutant: an entry trip is counted although an entry is pending.
entry_admitted_while_pending(s, l, now_ms) ==
    /\ ~s.entry_tripped[l]
    /\ cooldown_ok(s.last_entry_ms[l], now_ms)

\* The conditions under which stateEvent counts a trip.
entry_admitted(s, l, now_ms) ==
    /\ ~s.entry_tripped[l]
    /\ ~s.pending_entry[l]
    /\ cooldown_ok(s.last_entry_ms[l], now_ms)

exit_admitted(s, l, now_ms) ==
    /\ ~s.exit_tripped[l]
    /\ cooldown_ok(s.last_exit_ms[l], now_ms)

\* Mutant: an admitted entry is counted as parked at once.
entry_trip_validates(s, l, now_ms, net_ok) ==
    IF entry_admitted(s, l, now_ms)
    THEN LET s1 == [s EXCEPT !.entry_tripped[l] = TRUE,
                             !.last_entry_ms[l] = now_ms,
                             !.pending_entry[l] = TRUE,
                             !.pending_start_ms[l] = now_ms]
             s2 == record_sensor_event(s1, level_id_db(l), "entry", net_ok)
             s3 == IF s2.occupancy[l] < capacity[l]
                   THEN [s2 EXCEPT !.occupancy[l] = @ + 1]
                   ELSE s2
         IN  IF s3.valid_occupancy[l] < capacity[l]
             THEN show_validated_occupancy(
                      [s3 EXCEPT !.valid_occupancy[l] = @ + 1], now_ms)
             ELSE s3
    ELSE s

\* Mutant: an admitted entry that meets a full level takes a car off the
\* immediate count instead of leaving it.
entry_trip_wraps(s, l, now_ms, net_ok) ==
    IF entry_admitted(s, l, now_ms)
    THEN LET s1 == [s EXCEPT !.entry_tripped[l] = TRUE,
                             !.last_entry_ms[l] = now_ms,
                             !.pending_entry[l] = TRUE,
                             !.pending_start_ms[l] = now_ms]
             s2 == record_sensor_event(s1, level_id_db(l), "entry", net_ok)
         IN  IF s2.occupancy[l] < capacity[l]
             THEN [s2 EXCEPT !.occupancy[l] = @ + 1]
             ELSE [s2 EXCEPT !.occupancy[l] = 0]
    ELSE s

\* The branch of stateEvent for "<l>_entry_trip".
entry_trip(s, l, now_ms, net_ok) ==
    IF entry_admitted(s, l, now_ms)
    THEN LET s1 == [s EXCEPT !.entry_tripped[l] = TRUE,
                             !.last_entry_ms[l] = now_ms,
                             !.pending_entry[l] = TRUE,
                             !.pending_start_ms[l] = now_ms]
             s2 == record_sensor_event(s1, level_id_db(l), "entry", net_ok)
         IN  IF s2.exc THEN s2
             ELSE IF s2.occupancy[l] < capacity[l]
                  THEN [s2 EXCEPT !.occupancy[l] = @ + 1]
                  ELSE s2
    ELSE s

\* Mutant: the untrip event leaves the tripped flag set.
entry_untrip_ignored(s, l) == s

\* Mutant: the untrip event also forgets the last counted trip.
entry_untrip_forgets(s, l) ==
    IF s.entry_tripped[l]
    THEN [s EXCEPT !.entry_tripped[l] = FALSE, !.last_entry_ms[l] = None]
    ELSE s

entry_untrip(s, l) ==
    IF s.entry_tripped[l] THEN [s EXCEPT !.entry_tripped[l] = FALSE] ELSE s

\* Mutant: an admitted exit cancels the pending entries of both levels.
exit_trip_all_levels(s, l, now_ms, net_ok) ==
    IF ~s.exit_tripped[l] /\ cooldown_ok(s.last_exit_ms[l], now_ms)
    THEN LET s1 == [s EXCEPT !.exit_tripped[l] = TRUE,
                             !.last_exit_ms[l] = now_ms]
             s2 == record_sensor_event(s1, level_id_db(l), "exit", net_ok)
             s3 == IF s2.occupancy[l] > 0
                   THEN [s2 EXCEPT !.occupancy[l] = @ - 1]
                   ELSE s2
             s4 == [s3 EXCEPT !.pending_entry = [m \in Levels |-> FALSE],
                              !.pending_start_ms = [m \in Levels |-> None]]
         IN  IF s4.valid_occupancy[l] > 0
             THEN show_validated_occupancy(
                      [s4 EXCEPT !.valid_occupancy[l] = @ - 1], now_ms)
             ELSE s4
    ELSE s

\* Mutant: an admitted exit frees the spot only when no entry was pending.
exit_trip_pending_only(s, l, now_ms, net_ok) ==
    IF ~s.exit_tripped[l] /\ cooldown_ok(s.last_exit_ms[l], now_ms)
    THEN LET s1 == [s EXCEPT !.exit_tripped[l] = TRUE,
                             !.last_exit_ms[l] = now_ms]
             s2 == record_sensor_event(s1, level_id_db(l), "exit", net_ok)
             s3 == IF s2.occupancy[l] > 0
                   THEN [s2 EXCEPT !.occupancy[l] = @ - 1]
                   ELSE s2
             s4 == [s3 EXCEPT !.pending_entry[l] = FALSE,
                              !.pending_start_ms[l] = None]
         IN  IF s4.valid_occupancy[l] > 0 /\ ~s.pending_entry[l]
             THEN show_validated_occupancy(
                      [s4 EXCEPT !.valid_occupancy[l] = @ - 1], now_ms)
             ELSE s4
    ELSE s

\* Mutant: an admitted exit frees the spot without rendering it.
exit_trip_unrendered(s, l, now_ms, net_ok) ==
    IF ~s.exit_tripped[l] /\ cooldown_ok(s.last_exit_ms[l], now_ms)
    THEN LET s1 == [s EXCEPT !.exit_tripped[l] = TRUE,
                             !.last_exit_ms[l] = now_ms]
             s2 == record_sensor_event(s1, level_id_db(l), "exit", net_ok)
             s3 == IF s2.occupancy[l] > 0
                   THEN [s2 EXCEPT !.occupancy[l] = @ - 1]
                   ELSE s2
             s4 == [s3 EXCEPT !.pending_entry[l] = FALSE,
                              !.pending_start_ms[l] = None]
         IN  IF s4.valid_occupancy[l] > 0
             THEN update_garage_lights(
                      [s4 EXCEPT !.valid_occupancy[l] = @ - 1], now_ms)
             ELSE s4
    ELSE s

\* Mutant: an admitted exit leaves the pending entry in place.
exit_trip_keeps_pending(s, l, now_ms, net_ok) ==
    IF ~s.exit_tripped[l] /\ cooldown_ok(s.last_exit_ms[l], now_ms)
    THEN LET s1 == [s EXCEPT !.exit_tripped[l] = TRUE,
                             !.last_exit_ms[l] = now_ms]
             s2 == record_sensor_event(s1, level_id_db(l), "exit", net_ok)
             s3 == IF s2.occupancy[l] > 0
                   THEN [s2 EXCEPT !.occupancy[l] = @ - 1]
                   ELSE s2
         IN  IF s3.valid_occupancy[l] > 0
             THEN show_validated_occupancy(
                      [s3 EXCEPT !.valid_occupancy[l] = @ - 1], now_ms)
             ELSE s3
    ELSE s

\* The branch of stateEvent for "<l>_exit_trip".
exit_trip(s, l, now_ms, net_ok) ==
    IF exit_admitted(s, l, now_ms)
    THEN LET s1 == [s EXCEPT !.exit_tripped[l] = TRUE,
                             !.last_exit_ms[l] = now_ms]
             s2 == record_sensor_event(s1, level_id_db(l), "exit", net_ok)
             s3 == IF s2.occupancy[l] > 0
                   THEN [s2 EXCEPT !.occupancy[l] = @ - 1]
                   ELSE s2
             s4 == [s3 EXCEPT !.pending_entry[l] = FALSE,
                              !.pending_start_ms[l] = None]
         IN  IF s2.exc THEN s2
             ELSE IF s4.valid_occupancy[l] > 0
                  THEN show_validated_occupancy(
                           [s4 EXCEPT !.valid_occupancy[l] = @ - 1], now_ms)
                  ELSE s4
    ELSE s

exit_untrip(s, l) ==
    IF s.exit_tripped[l] THEN [s EXCEPT !.exit_tripped[l] = FALSE] ELSE s

\* stateEvent(state, event): the handler of every event that is no transition.
stateEvent(s, ev, now_ms, net_ok) ==
    IF ev = "reset_press" THEN reset_garage(s, now_ms)
    ELSE IF ev = "L1_entry_trip" THEN entry_trip(s, "L1", now_ms, net_ok)
    ELSE IF ev = "L1_entry_untrip" THEN entry_untrip(s, "L1")
    ELSE IF ev = "L1_exit_trip" THEN exit_trip(s, "L1", now_ms, net_ok)
    ELSE IF ev = "L1_exit_untrip" THEN exit_untrip(s, "L1")
    ELSE IF ev = "L2_entry_trip" THEN entry_trip(s, "L2", now_ms, net_ok)
    ELSE IF ev = "L2_entry_untrip" THEN entry_untrip(s, "L2")
    ELSE IF ev = "L2_exit_trip" THEN exit_trip(s, "L2", now_ms, net_ok)
    ELSE IF ev = "L2_exit_untrip" THEN exit_untrip(s, "L2")
    ELSE s

\* The transition table built by addTransition.
Transition(st, ev) ==
    IF st = NORMAL /\ ev = "garage_full" THEN FULL_ALERT
    ELSE IF st = FULL_ALERT /\ ev = "garage_not_full" THEN NORMAL
    ELSE None

\* StateModel.processEvent: take the transition of the current state on the
\* event (exit action, new state, entry action), else hand it to stateEvent.
processEvent(s, ev, now_ms, net_ok) ==
    LET s0 == IF ev \in {"garage_full", "garage_not_full"}
              THEN [s EXCEPT !.raised = Append(@, ev)] ELSE s
        to == Transition(s0.state, ev)
    IN  IF to # None
        THEN stateEntered([stateLeft(s0, s0.state, ev) EXCEPT !.state = to], to, ev, now_ms)
        ELSE stateEvent(s0, ev, now_ms, net_ok)

\* Mutant: the confirmation does not clamp at capacity.
confirm_pending_unclamped(s, l, now_ms) ==
    IF s.pending_entry[l] /\ s.pending_start_ms[l] # None
          /\ ticks_diff(now_ms, s.pending_start_ms[l]) >= entry_confirm_delay_ms
    THEN show_validated_occupancy(
             [s EXCEPT !.pending_entry[l] = FALSE,
                       !.pending_start_ms[l] = None,
                       !.valid_occupancy[l] = @ + 1], now_ms)
    ELSE s

\* Mutant: the confirmation leaves the entry pending.
confirm_pending_again(s, l, now_ms) ==
    IF s.pending_entry[l] /\ s.pending_start_ms[l] # None
          /\ ticks_diff(now_ms, s.pending_start_ms[l]) >= entry_confirm_delay_ms
          /\ s.valid_occupancy[l] < capacity[l]
    THEN show_validated_occupancy([s EXCEPT !.valid_occupancy[l] = @ + 1], now_ms)
    ELSE s

\* Mutant: the dwell window must be exceeded, not reached.
confirm_pending_late(s, l, now_ms) ==
    IF s.pending_entry[l] /\ s.pending_start_ms[l] # None
          /\ ticks_diff(now_ms, s.pending_start_ms[l]) > entry_confirm_delay_ms
    THEN LET s1 == [s EXCEPT !.pending_entry[l] = FALSE,
                             !.pending_start_ms[l] = None]
         IN  IF s1.valid_occupancy[l] < capacity[l]
             THEN show_validated_occupancy(
                      [s1 EXCEPT !.valid_occupancy[l] = @ + 1], now_ms)
             ELSE s1
    ELSE s

\* Mutant: the confirmation comes one millisecond before the dwell window ends.
confirm_pending_early(s, l, now_ms) ==
    IF s.pending_entry[l] /\ s.pending_start_ms[l] # None
          /\ ticks_diff(now_ms, s.pending_start_ms[l]) >= entry_confirm_delay_ms - 1
    THEN LET s1 == [s EXCEPT !.pending_entry[l] = FALSE,
                             !.pending_start_ms[l] = None]
         IN  IF s1.valid_occupancy[l] < capacity[l]
             THEN show_validated_occupancy(
                      [s1 EXCEPT !.valid_occupancy[l] = @ + 1], now_ms)
             ELSE s1
    ELSE s

\* Mutant: an entry that expires on a full level stays pending.
confirm_pending_stuck(s, l, now_ms) ==
    IF s.pending_entry[l] /\ s.pending_start_ms[l] # None
          /\ ticks_diff(now_ms, s.pending_start_ms[l]) >= entry_confirm_delay_ms
          /\ s.valid_occupancy[l] < capacity[l]
    THEN show_validated_occupancy(
             [s EXCEPT !.pending_entry[l] = FALSE,
                       !.pending_start_ms[l] = None,
                       !.valid_occupancy[l] = @ + 1], now_ms)
    ELSE s

\* stateDo(state): dwell confirmation of each level, then the flash cycle.
confirm_pending(s, l, now_ms) ==
    IF s.pending_entry[l] /\ s.pending_start_ms[l] # None
    THEN IF ticks_diff(now_ms, s.pending_start_ms[l]) >= entry_confirm_delay_ms
         THEN LET s1 == [s EXCEPT !.pending_entry[l] = FALSE,
                                  !.pending_start_ms[l] = None]
              IN  IF s1.valid_occupancy[l] < capacity[l]
                  THEN show_validated_occupancy(
                           [s1 EXCEPT !.valid_occupancy[l] = @ + 1], now_ms)
                  ELSE s1
         ELSE s
    ELSE s

flash_lights(s, st, now_ms) ==
    IF s.garage_full /\ st = FULL_ALERT
    THEN IF ticks_diff(now_ms, s.last_flash_ms) >= flash_period_ms
         THEN [s EXCEPT !.last_flash_ms = now_ms,
                        !.flash_on = ~@,
                        !.strip = IF ~s.flash_on THEN RED ELSE DIM_RED]
         ELSE s
    ELSE s

stateDo(s, st, now_ms) ==
    flash_lights(confirm_pending(confirm_pending(s, "L1", now_ms), "L2", now_ms), st, now_ms)

\* ------------------------------------------------ one call of the DAL
\* The arguments of a call and the behaviour of the network during it.
LevelIds == {0, 1, 2, L1_level_id_db, L2_level_id_db}
SensorTypes == {"entry", "exit", "Entry", "EXIT", "", "reset"}
Responses == {Accepted, "[]"}
DalCalls ==
    [level_id : LevelIds, sensor_type : SensorTypes, net_ok : BOOLEAN,
     data : Responses]

\* No call made (yet).
NoCall == [level_id |-> 0, sensor_type |-> "", net_ok |-> TRUE, data |-> Accepted]
NotCalled ==
    [done |-> FALSE, raises |-> FALSE, error |-> "", posted |-> <<>>,
     returned |-> NoData]

\* dal.send_sensor_event(level_id, sensor_type) returns or raises.
DalCall ==
    /\ ~dal_out.done
    /\ LET r == send_sensor_event(dal_call.level_id, dal_call.sensor_type,
                                  dal_call.net_ok, dal_call.data)
       IN  dal_out' = [done |-> TRUE, raises |-> r.raises, error |-> r.error,
                       posted |-> r.posted, returned |-> r.returned]
    /\ UNCHANGED << dal_call, lotvars, fbvars >>

\* ------------------------------------------------ the feedback station
WELCOME == 0
FEEDBACK == 1
HAPPY == 2
SAD == 3
ALARM == 4

\* The alarm threshold 0.2 of stateEntered, as the fraction 1/5.
ThresholdNum == 1
ThresholdDen == 5
\* The timers started on entering FEEDBACK and on entering HAPPY or SAD.
PromptSeconds == 5
ThanksSeconds == 2

FbEvents ==
    {"motion_trip", "motion_untrip", "happy_press", "happy_release",
     "sad_press", "sad_release"}

\* The station at the start of a handler.
FbSelf ==
    [ state |-> fb_state, positive |-> fb_positive, negative |-> fb_negative,
      alarmon |-> fb_alarmon, needs_display |-> fb_needs_display,
      timer |-> fb_timer, lcd |-> fb_lcd, buzzer |-> fb_buzzer,
      entered |-> <<>> ]

FbBecomes(s) ==
    /\ fb_state' = s.state
    /\ fb_positive' = s.positive
    /\ fb_negative' = s.negative
    /\ fb_alarmon' = s.alarmon
    /\ fb_needs_display' = s.needs_display
    /\ fb_timer' = s.timer
    /\ fb_lcd' = s.lcd
    /\ fb_buzzer' = s.buzzer
    /\ fb_entered' = s.entered

\* FeedbackStats.getPercentage() < num/den: the share is 0.5 without votes,
\* else positive / total, compared exactly.
getPercentage_below(s, num, den) ==
    LET total == s.positive + s.negative
    IN  IF total = 0 THEN 2 * num > den
        ELSE s.positive * den < num * total

\* Mutant: the timeout of the timer leaves ALARM as it leaves SAD.
fb_Transition_timed_alarm(st, ev) ==
    IF st = WELCOME /\ ev = "motion_trip" THEN FEEDBACK
    ELSE IF st = FEEDBACK /\ ev = "timer_timeout" THEN WELCOME
    ELSE IF st = FEEDBACK /\ ev = "happy_press" THEN HAPPY
    ELSE IF st = FEEDBACK /\ ev = "sad_press" THEN SAD
    ELSE IF st = HAPPY /\ ev = "timer_timeout" THEN WELCOME
    ELSE IF st = SAD /\ ev = "timer_timeout" THEN WELCOME
    ELSE IF st = ALARM /\ ev \in {"sad_press", "timer_timeout"} THEN WELCOME
    ELSE IF st = SAD /\ ev = "feedbackbelowthreshold" THEN ALARM
    ELSE None

\* The transitions added in __init__.
fb_Transition(st, ev) ==
    IF st = WELCOME /\ ev = "motion_trip" THEN FEEDBACK
    ELSE IF st = FEEDBACK /\ ev = "timer_timeout" THEN WELCOME
    ELSE IF st = FEEDBACK /\ ev = "happy_press" THEN HAPPY
    ELSE IF st = FEEDBACK /\ ev = "sad_press" THEN SAD
    ELSE IF st = HAPPY /\ ev = "timer_timeout" THEN WELCOME
    ELSE IF st = SAD /\ ev = "timer_timeout" THEN WELCOME
    ELSE IF st = ALARM /\ ev = "sad_press" THEN WELCOME
    ELSE IF st = SAD /\ ev = "feedbackbelowthreshold" THEN ALARM
    ELSE None

RECURSIVE fb_processEvent(_, _)

fb_stateEntered(s, st, ev) ==
    LET s1 == [s EXCEPT !.entered = Append(@, st)]
    IN  IF st = WELCOME THEN [s1 EXCEPT !.lcd = "Welcome to Gamestop!"]
        ELSE IF st = FEEDBACK
        THEN [s1 EXCEPT !.needs_display = TRUE, !.timer = PromptSeconds]
        ELSE IF st = HAPPY
        THEN [s1 EXCEPT !.positive = @ + 1, !.timer = ThanksSeconds]
        ELSE IF st = SAD
        THEN LET s2 == [s1 EXCEPT !.negative = @ + 1, !.timer = ThanksSeconds]
             IN  IF getPercentage_below(s2, ThresholdNum, ThresholdDen)
                 THEN fb_processEvent(s2, "feedbackbelowthreshold")
                 ELSE s2
        ELSE IF st = ALARM
        THEN [s1 EXCEPT !.alarmon = TRUE, !.lcd = "ALARM! Getting Manager!"]
        ELSE s1

fb_stateLeft(s, st, ev) ==
    IF st = ALARM THEN [s EXCEPT !.alarmon = FALSE, !.buzzer = FALSE] ELSE s

\* stateEvent handles nothing (it returns False).
fb_stateEvent(s, ev) == s

\* StateModel.processEvent for the station.
fb_processEvent(s, ev) ==
    LET to == fb_Transition(s.state, ev)
    IN  IF to # None
        THEN fb_stateEntered([fb_stateLeft(s, s.state, ev) EXCEPT !.state = to], to, ev)
        ELSE fb_stateEvent(s, ev)

fb_stateDo(s, st) ==
    LET s1 == IF st = FEEDBACK /\ s.needs_display
              THEN [s EXCEPT !.needs_display = FALSE,
                             !.lcd = "Did you enjoy your visit?"]
              ELSE s
    IN  IF st = ALARM /\ s1.alarmon THEN [s1 EXCEPT !.buzzer = TRUE] ELSE s1

\* The station as constructed.
FbInit ==
    /\ fb_running = FALSE
    /\ fb_state = WELCOME
    /\ fb_positive = 0
    /\ fb_negative = 0
    /\ fb_alarmon = FALSE
    /\ fb_needs_display = FALSE
    /\ fb_timer = 0
    /\ fb_lcd = ""
    /\ fb_buzzer = FALSE
    /\ fb_event = "init"
    /\ fb_entered = <<>>

\* run(): StateModel.run enters state 0.
FbRun ==
    /\ ~fb_running
    /\ fb_running' = TRUE
    /\ fb_event' = "run"
    /\ FbBecomes(fb_stateEntered(FbSelf, WELCOME, "None"))
    /\ UNCHANGED << lotvars, dalvars >>

\* One pass of the run loop.
FbTick ==
    /\ fb_running
    /\ fb_event' = "tick"
    /\ FbBecomes(fb_stateDo(FbSelf, fb_state))
    /\ UNCHANGED << fb_running, lotvars, dalvars >>

\* Votes counted so far stay within the bound.
MaxVotes == 6

\* A button or the motion sensor raises an event.
FbDeliver(ev) ==
    /\ fb_running
    /\ (fb_state = FEEDBACK /\ ev \in {"happy_press", "sad_press"})
          => fb_positive + fb_negative < MaxVotes
    /\ fb_event' = ev
    /\ FbBecomes(fb_processEvent(FbSelf, ev))
    /\ UNCHANGED << fb_running, lotvars, dalvars >>

\* The running timer expires.
FbTimeout ==
    /\ fb_running
    /\ fb_timer > 0
    /\ fb_event' = "timer_timeout"
    /\ FbBecomes(fb_processEvent([FbSelf EXCEPT !.timer = 0], "timer_timeout"))
    /\ UNCHANGED << fb_running, lotvars, dalvars >>

\* ------------------------------------------------------------- actions
\* The parking controller as constructed, the clock reading t0.
LotInit(cap, t0) ==
    /\ running = FALSE
    /\ state = NORMAL
    /\ garage_full = FALSE
    /\ flash_on = FALSE
    /\ last_flash_ms = 0
    /\ entry_tripped = [l \in Levels |-> FALSE]
    /\ exit_tripped = [l \in Levels |-> FALSE]
    /\ occupancy = [l \in Levels |-> 0]
    /\ valid_occupancy = [l \in Levels |-> 0]
    /\ capacity = [l \in Levels |-> cap]
    /\ last_entry_ms = [l \in Levels |-> None]
    /\ last_exit_ms = [l \in Levels |-> None]
    /\ pending_entry = [l \in Levels |-> FALSE]
    /\ pending_start_ms = [l \in Levels |-> None]
    /\ display = Blank
    /\ strip = Unset
    /\ now = t0
    /\ elapsed = 0
    /\ event = "init"
    /\ relay = <<>>
    /\ raised = <<>>
    /\ entered = <<>>
    /\ exc = FALSE
    /\ flash_changed_ms = None

InitWith(cap) ==
    /\ LotInit(cap, 0)
    /\ dal_call = NoCall /\ dal_out = NotCalled
    /\ FbInit

Init == InitWith(MaxCapacity)

\* The history of the flash phase: the clock reading of its last change.
PhaseLog ==
    flash_changed_ms' = IF flash_on' # flash_on THEN now' ELSE flash_changed_ms

\* run(): the startup sequence shows the availability, then StateModel.run
\* enters state 0.
Run ==
    /\ ~running
    /\ running' = TRUE
    /\ event' = "run"
    /\ Becomes(stateEntered(show_validated_occupancy(Self, now), NORMAL, "None", now))
    /\ UNCHANGED << capacity, now, elapsed >>
    /\ PhaseLog
    /\ UNCHANGED << dalvars, fbvars >>

\* Time passes: the sleep of the run loop, or a handler that takes time.
SleepUpTo(d, horizon) ==
    /\ running
    /\ elapsed + d <= horizon
    /\ now' = (now + d) % TICKS_PERIOD
    /\ elapsed' = elapsed + d
    /\ UNCHANGED << running, state, garage_full, flash_on, last_flash_ms,
                    entry_tripped, exit_tripped, occupancy, valid_occupancy,
                    capacity, last_entry_ms, last_exit_ms, pending_entry,
                    pending_start_ms, display, strip, event, relay, raised,
                    entered, exc, flash_changed_ms, dalvars, fbvars >>

\* One pass of the run loop: stateDo of the current state.
Tick ==
    /\ running
    /\ event' = "tick"
    /\ Becomes(stateDo(Self, state, now))
    /\ UNCHANGED << running, capacity, now, elapsed >>
    /\ PhaseLog
    /\ UNCHANGED << dalvars, fbvars >>

\* The runtime delivers one named event; net_ok: the backend answers.
Deliver(ev, net_ok) ==
    /\ running
    /\ event' = ev
    /\ Becomes(processEvent(Self, ev, now, net_ok))
    /\ UNCHANGED << running, capacity, now, elapsed >>
    /\ PhaseLog
    /\ UNCHANGED << dalvars, fbvars >>

\* Only a trip event can reach the backend.
NetOutcomes(ev) ==
    IF ev \in {EventName(l, d, "trip") : l \in Levels, d \in Directions}
    THEN BOOLEAN ELSE {TRUE}

Next ==
    \/ Run
    \/ \E d \in Steps : SleepUpTo(d, MaxTime)
    \/ Tick
    \/ \E ev \in Events : \E net_ok \in NetOutcomes(ev) : Deliver(ev, net_ok)

Spec == Init /\ [][Next]_vars

\* The same controller watched for two dwell windows, so that a level can
\* fill, empty and fill again, and a confirmation can meet a full level.
NextLong ==
    \/ Run
    \/ \E d \in Steps : SleepUpTo(d, MaxLongTime)
    \/ Tick
    \/ \E ev \in Events : \E net_ok \in NetOutcomes(ev) : Deliver(ev, net_ok)

SpecLong == Init /\ [][NextLong]_vars


\* ---------------------------------------------------------------------
\* The debounce boundary: the same controller, with time passing in steps
\* that land exactly on, and one millisecond past, the cooldown window.
MaxCooldownTime == 1001
CooldownSteps == {1000, 1001}

NextCooldown ==
    \/ Run
    \/ \E d \in CooldownSteps : SleepUpTo(d, MaxCooldownTime)
    \/ Tick
    \/ \E ev \in Events : \E net_ok \in NetOutcomes(ev) : Deliver(ev, net_ok)

SpecCooldown == Init /\ [][NextCooldown]_vars

\* The dwell boundary: the clock is read one millisecond before, and exactly
\* at, the end of a dwell window that started at 0.
MaxDwellTime == 5000
DwellTimes == {entry_confirm_delay_ms - 1, entry_confirm_delay_ms}

NextDwell ==
    \/ Run
    \/ \E t \in DwellTimes : t > elapsed /\ SleepUpTo(t - elapsed, MaxDwellTime)
    \/ Tick
    \/ \E ev \in Events : \E net_ok \in NetOutcomes(ev) : Deliver(ev, net_ok)

SpecDwell == Init /\ [][NextDwell]_vars

\* The run loop under fair scheduling: stateDo keeps being called and the
\* clock keeps advancing until the end of the observation, and entry trips
\* stop arriving one dwell window before that end.
MaxFairTime == 10000

FairDeliver(ev, net_ok) ==
    /\ ev \in {EventName(l, "entry", "trip") : l \in Levels}
          => elapsed + entry_confirm_delay_ms <= MaxFairTime
    /\ Deliver(ev, net_ok)

FairSleep == \E d \in Steps : SleepUpTo(d, MaxFairTime)

NextFair ==
    \/ Run
    \/ FairSleep
    \/ Tick
    \/ \E ev \in Events : \E net_ok \in NetOutcomes(ev) : FairDeliver(ev, net_ok)

\* A pending entry has reached the end of its dwell window.
DwellDue ==
    \E l \in Levels :
        /\ pending_entry[l]
        /\ ticks_diff(now, pending_start_ms[l]) >= entry_confirm_delay_ms

\* A pass of the run loop: the step of Next that leaves the clock alone and
\* logs "tick" is the step Tick.
TickStep == running /\ now' = now /\ event' = "tick"

\* Weak fairness of the clock, and weak fairness of the pass of the run loop
\* that finds an entry at the end of its dwell window, the latter spelled
\* out as WF is defined (such a pass is enabled exactly when DwellDue holds,
\* and it changes the pending flag).
SpecFair ==
    /\ Init /\ [][NextFair]_vars
    /\ WF_vars(FairSleep)
    /\ ([]<>~DwellDue \/ []<><<DwellDue /\ TickStep>>_vars)

\* The clock near its wraparound: the controller is constructed 2500 ms
\* before ticks_ms() wraps to 0, runs for one dwell window, and then, with no
\* entry pending, sees no sensor event for half a clock period (the run loop
\* ticks every 100 ms, so a pending entry does not outlive its dwell window).
WrapStart == TICKS_PERIOD - (entry_confirm_delay_ms \div 2)
WrapHorizon == entry_confirm_delay_ms + TICKS_HALF

WrapInit ==
    /\ LotInit(MaxCapacity, WrapStart)
    /\ dal_call = NoCall /\ dal_out = NotCalled
    /\ FbInit

WrapSleep == SleepUpTo(entry_confirm_delay_ms, entry_confirm_delay_ms)

WrapIdle ==
    /\ \A l \in Levels : ~pending_entry[l]
    /\ elapsed = entry_confirm_delay_ms
    /\ SleepUpTo(TICKS_HALF, WrapHorizon)

NextWrap ==
    \/ Run
    \/ WrapSleep
    \/ WrapIdle
    \/ Tick
    \/ \E ev \in Events : \E net_ok \in NetOutcomes(ev) : Deliver(ev, net_ok)

SpecWrap == WrapInit /\ [][NextWrap]_vars

\* One call of DAL.send_sensor_event with arguments and a network behaviour
\* drawn from the sets above.
DalInit ==
    /\ LotInit(MaxCapacity, 0)
    /\ dal_call \in DalCalls /\ dal_out = NotCalled
    /\ FbInit

NextDal == DalCall

SpecDal == DalInit /\ [][NextDal]_vars

\* The feedback station.
NextFeedback ==
    \/ FbRun
    \/ FbTick
    \/ \E ev \in FbEvents : FbDeliver(ev)
    \/ FbTimeout

SpecFeedback == Init /\ [][NextFeedback]_vars

\* ---------------------------------------------------------------------
\* The scenario of two cars parking on level 1 of a garage configured with
\* capacity 2 per level: the run loop ticks at 5000, 5100 and 10100 ms, the
\* entry sensor of level 1 trips at 0 and at 5100 ms and its exit sensor
\* never does, nobody presses reset, and level 2 is left to its own traffic.
ScenarioTimes == {0, 5000, 5100, 10100}
ScenarioTripTimes == {0, 5100}
ScenarioEvents ==
    {"L1_entry_trip", "L1_entry_untrip"}
    \cup {EventName("L2", d, k) : d \in Directions, k \in {"trip", "untrip"}}

ScenarioInit == InitWith(2)

\* The run loop sleeps for d ms and runs stateDo; the entry trip due at the
\* current instant has been counted.
ScenarioTick(d) ==
    /\ running
    /\ now + d \in ScenarioTimes
    /\ now \in ScenarioTripTimes => last_entry_ms["L1"] = now
    /\ now' = now + d
    /\ elapsed' = elapsed + d
    /\ event' = "tick"
    /\ Becomes(stateDo(Self, state, now + d))
    /\ UNCHANGED << running, capacity >>
    /\ PhaseLog
    /\ UNCHANGED << dalvars, fbvars >>

ScenarioDeliver(ev, net_ok) ==
    /\ ev = "L1_entry_trip" => now \in ScenarioTripTimes
    /\ Deliver(ev, net_ok)

NextScenario ==
    \/ Run
    \/ \E d \in {100, 5000} : ScenarioTick(d)
    \/ \E ev \in ScenarioEvents : \E net_ok \in NetOutcomes(ev) : ScenarioDeliver(ev, net_ok)

SpecScenario == ScenarioInit /\ [][NextScenario]_vars

\* ---------------------------------------------------------------------
\* Properties
\* The step is the handling of event ev: only Run, Tick and Deliver set the
\* variable event, and only they leave the clock alone.
Handles(ev) == running /\ now' = now /\ event' = ev
Ticks == running /\ now' = now /\ event' = "tick"
Starts == ~running /\ running'
\* The step handles ev, and the backend answered (ok) or failed (~ok) if called.
HandlesWith(ev, ok) == Handles(ev) /\ (relay' = <<>> \/ relay'[1].ok = ok)
Min(a, b) == IF a < b THEN a ELSE b
\* Real time since a timestamp was taken (no wrap of the clock inside MaxTime).
Since(ts) == now - ts
AllFull(v) == \A l \in Levels : v[l] = capacity[l]

\* C1: in every reachable state both counters of both levels lie in
\* [0, capacity].
C1_CountersWithinCapacity ==
    \A l \in Levels :
        /\ 0 <= valid_occupancy[l] /\ valid_occupancy[l] <= capacity[l]
        /\ 0 <= occupancy[l] /\ occupancy[l] <= capacity[l]

\* Level 1 with both counters at capacity right after the tick that resolved
\* its second entry, level 2 being empty.
C1_Witness ==
    /\ event = "tick"
    /\ now = 2 * entry_confirm_delay_ms
    /\ last_entry_ms["L1"] = entry_confirm_delay_ms /\ ~pending_entry["L1"]
    /\ last_exit_ms["L1"] = None
    /\ valid_occupancy["L1"] = capacity["L1"] /\ occupancy["L1"] = capacity["L1"]
    /\ valid_occupancy["L2"] = 0 /\ occupancy["L2"] = 0

\* C2 as stated: every tick that finds a pending entry whose dwell window has
\* elapsed raises the validated occupancy of that level by one.
C2_Original ==
    [][\A l \in Levels :
          (Ticks /\ pending_entry[l] /\ Since(pending_start_ms[l]) >= entry_confirm_delay_ms)
          => valid_occupancy'[l] = valid_occupancy[l] + 1]_vars

\* C2 amended: a tick that finds a pending entry whose dwell window has elapsed
\* resolves it, raising validated occupancy by one, or leaving it unchanged
\* when it is already at capacity; and validated occupancy never rises in any
\* other step, so no entry is counted twice.
C2_ConfirmedOnceClamped ==
    [][\A l \in Levels :
          /\ (Ticks /\ pending_entry[l] /\ Since(pending_start_ms[l]) >= entry_confirm_delay_ms)
             => /\ valid_occupancy'[l] = Min(valid_occupancy[l] + 1, capacity[l])
                /\ ~pending_entry'[l]
                /\ pending_start_ms'[l] = None
          /\ valid_occupancy'[l] > valid_occupancy[l]
             => /\ Ticks
                /\ pending_entry[l] /\ ~pending_entry'[l]
                /\ Since(pending_start_ms[l]) >= entry_confirm_delay_ms
                /\ valid_occupancy'[l] = valid_occupancy[l] + 1]_vars

\* An entry counted at time 0 on a level that never saw an exit, confirmed by
\* the tick at the end of its dwell window.
C2_Witness ==
    /\ event = "tick"
    /\ last_entry_ms["L1"] = 0 /\ last_exit_ms["L1"] = None
    /\ now = entry_confirm_delay_ms
    /\ ~pending_entry["L1"]
    /\ valid_occupancy["L1"] = 1

\* C3 as stated: an exit trip of an untripped exit sensor, on a level whose
\* entry is still inside its dwell window, cancels the pending entry.
C3_Original ==
    [][\A l \in Levels :
          (Handles(EventName(l, "exit", "trip")) /\ ~exit_tripped[l] /\ pending_entry[l]
             /\ Since(pending_start_ms[l]) < entry_confirm_delay_ms)
          => ~pending_entry'[l]]_vars

\* C3 amended: an exit trip that the debounce gate admits (exit channel not
\* tripped, its cooldown over) cancels the pending entry of its level in the
\* same step without raising validated occupancy, and a level with no pending
\* entry never has its validated occupancy raised, so the cancelled entry is
\* never counted.
C3_AdmittedExitCancels ==
    [][\A l \in Levels :
          /\ (Handles(EventName(l, "exit", "trip")) /\ pending_entry[l]
                /\ ~exit_tripped[l]
                /\ (last_exit_ms[l] = None \/ Since(last_exit_ms[l]) > sensor_cooldown_ms))
             => /\ ~pending_entry'[l]
                /\ pending_start_ms'[l] = None
                /\ valid_occupancy'[l] <= valid_occupancy[l]
          /\ ~pending_entry[l] => valid_occupancy'[l] <= valid_occupancy[l]]_vars

\* An exit trip just cancelled the entry counted at the same instant.
C3_Witness ==
    /\ event = "L1_exit_trip"
    /\ relay # <<>>
    /\ last_entry_ms["L1"] = now /\ last_exit_ms["L1"] = now
    /\ ~pending_entry["L1"] /\ pending_start_ms["L1"] = None
    /\ valid_occupancy["L1"] = 0

\* C4: a trip event arriving within the cooldown window of the last counted
\* trip of its own channel changes no counter and no pending entry of any
\* level and makes no relay call.
C4_CooldownTripIgnored ==
    [][\A l \in Levels :
          LET quiet == /\ occupancy' = occupancy
                       /\ valid_occupancy' = valid_occupancy
                       /\ pending_entry' = pending_entry
                       /\ pending_start_ms' = pending_start_ms
                       /\ relay' = <<>>
          IN  /\ (Handles(EventName(l, "entry", "trip")) /\ last_entry_ms[l] # None
                    /\ Since(last_entry_ms[l]) <= sensor_cooldown_ms) => quiet
              /\ (Handles(EventName(l, "exit", "trip")) /\ last_exit_ms[l] # None
                    /\ Since(last_exit_ms[l]) <= sensor_cooldown_ms) => quiet]_vars

\* An exit trip exactly one cooldown after the last counted exit of a channel
\* that has untripped, on a level with a car counted: it was ignored.
C4_Witness ==
    /\ event = "L1_exit_trip"
    /\ relay = <<>>
    /\ ~exit_tripped["L1"]
    /\ last_exit_ms["L1"] # None
    /\ Since(last_exit_ms["L1"]) = sensor_cooldown_ms
    /\ occupancy["L1"] = 1
    /\ pending_entry["L1"]

\* C5: once a handler or tick is complete, the state is FULL_ALERT exactly
\* when every level's validated occupancy equals its capacity, NORMAL exactly
\* when some level is below capacity, and the "is full" snapshot agrees.
C5_AlertIffAllFull ==
    /\ (state = FULL_ALERT) <=> AllFull(valid_occupancy)
    /\ (state = NORMAL) <=> (\E l \in Levels : valid_occupancy[l] < capacity[l])
    /\ garage_full <=> (state = FULL_ALERT)

\* The tick that filled the second level moved the machine to FULL_ALERT.
C5_Witness ==
    /\ event = "tick"
    /\ state = FULL_ALERT
    /\ entered = <<FULL_ALERT>>
    /\ AllFull(valid_occupancy)

\* C6 as stated: while the controller runs, a garage_full / garage_not_full
\* event is raised only in a step that changes the aggregate fullness.
C6_Original ==
    [][((Ticks \/ \E ev \in Events : Handles(ev)) /\ raised' # <<>>)
          => AllFull(valid_occupancy') # AllFull(valid_occupancy)]_vars

\* C6 amended: in every tick and every sensor event a garage_full /
\* garage_not_full event is raised exactly when the step changes the aggregate
\* fullness, once and in the direction of the change; the entry action of a
\* state runs (once) exactly when the state changes, in every step of the
\* running controller, reset included.  Only a reset raises garage_not_full
\* without a change of fullness, and then no entry action runs.
C6_EdgeTriggered ==
    [][/\ \A ev \in SensorEvents :
            (Handles(ev) \/ Ticks)
            => raised' = IF AllFull(valid_occupancy') = AllFull(valid_occupancy) THEN <<>>
                         ELSE IF AllFull(valid_occupancy') THEN <<"garage_full">>
                         ELSE <<"garage_not_full">>
       /\ (Handles("reset_press") \/ Ticks \/ \E ev \in SensorEvents : Handles(ev))
            => entered' = IF AllFull(valid_occupancy') = AllFull(valid_occupancy) THEN <<>>
                          ELSE IF AllFull(valid_occupancy') THEN <<FULL_ALERT>>
                          ELSE <<NORMAL>>
       /\ Handles("reset_press") => raised' = <<"garage_not_full">>]_vars

\* A tick in FULL_ALERT, the garage full before and after it: nothing raised,
\* no entry action.
C6_Witness ==
    /\ event = "tick"
    /\ state = FULL_ALERT
    /\ raised = <<>> /\ entered = <<>>
    /\ last_flash_ms = now

\* C7: right after a reset event is handled, both counters of every level are
\* 0, no entry is pending, the flash phase is off and the state is NORMAL.
C7_ResetClearsAll ==
    event = "reset_press"
    => /\ \A l \in Levels :
            /\ occupancy[l] = 0 /\ valid_occupancy[l] = 0
            /\ ~pending_entry[l] /\ pending_start_ms[l] = None
       /\ ~flash_on
       /\ state = NORMAL
       /\ ~garage_full

\* A reset handled in FULL_ALERT: it ran the entry action of NORMAL.
C7_Witness ==
    /\ event = "reset_press"
    /\ entered = <<NORMAL>>
    /\ state = NORMAL

\* C8: a trip whose relay call fails leaves the controller exactly where the
\* same trip with a successful call leaves it: an admitted entry is tripped,
\* stamped, pending and counted, an admitted exit is tripped, stamped and
\* counted down; no exception leaves the handler and the call is made once.
C8_RelayFailureContained ==
    [][\A l \in Levels, d \in Directions :
          HandlesWith(EventName(l, d, "trip"), FALSE)
          => LET good == processEvent(Self, EventName(l, d, "trip"), now, TRUE)
             IN  /\ Becomes([good EXCEPT !.relay = relay'])
                 /\ ~exc'
                 /\ Len(relay') <= 1
                 /\ (d = "entry" /\ entry_admitted(Self, l, now))
                    => /\ entry_tripped'[l] /\ last_entry_ms'[l] = now
                       /\ pending_entry'[l] /\ pending_start_ms'[l] = now
                       /\ occupancy'[l] = Min(occupancy[l] + 1, capacity[l])
                       /\ relay'[1].ok = FALSE
                 /\ (d = "exit" /\ exit_admitted(Self, l, now))
                    => /\ exit_tripped'[l] /\ last_exit_ms'[l] = now
                       /\ ~pending_entry'[l]
                       /\ occupancy'[l] = IF occupancy[l] > 0 THEN occupancy[l] - 1 ELSE 0
                       /\ valid_occupancy'[l] =
                             IF valid_occupancy[l] > 0 THEN valid_occupancy[l] - 1 ELSE 0
                       /\ relay'[1].ok = FALSE]_vars

\* An entry trip was counted although its relay call failed.
C8_Witness ==
    /\ event = "L1_entry_trip"
    /\ Len(relay) = 1 /\ ~relay[1].ok
    /\ entry_tripped["L1"] /\ pending_entry["L1"]
    /\ last_entry_ms["L1"] = now
    /\ occupancy["L1"] = 1

\* C9: a step makes exactly one relay call, with the backend id of the level
\* (L1 -> 101, L2 -> 102) and the direction of the trip, when it handles an
\* admitted entry or exit trip, and no relay call otherwise (untrip, rejected
\* trip, reset, tick and the confirmation or cancellation it performs).
C9_OneRelayPerAdmittedTrip ==
    [][/\ \A l \in Levels, d \in Directions, ok \in BOOLEAN :
            /\ HandlesWith(EventName(l, d, "trip"), ok)
               => relay' = IF (IF d = "entry" THEN entry_admitted(Self, l, now)
                                              ELSE exit_admitted(Self, l, now))
                           THEN << [level_id |-> IF l = "L1" THEN 101 ELSE 102,
                                    sensor_type |-> d, ok |-> ok] >>
                           ELSE <<>>
            /\ HandlesWith(EventName(l, d, "untrip"), ok) => relay' = <<>>
       /\ (Handles("reset_press") \/ Ticks \/ Starts) => relay' = <<>>]_vars

\* The exit trip of level 2 was relayed once, as an exit of backend level 102.
C9_Witness ==
    /\ event = "L2_exit_trip"
    /\ relay = << [level_id |-> 102, sensor_type |-> "exit", ok |-> TRUE] >>
    /\ valid_occupancy["L2"] = 0 /\ last_entry_ms["L2"] = 0 /\ now = entry_confirm_delay_ms

\* C10: in the scenario (capacity 2, dwell 5000 ms, cooldown 1000 ms) the
\* entry trip of level 1 at t=0 leaves validated(L1)=0 with the entry pending;
\* at t=5000 validated(L1)=1; the entry trip at t=5100 starts a new pending
\* entry; at t=10100 validated(L1)=2, and the state is FULL_ALERT exactly if
\* level 2 is at capacity as well.
C10_Scenario ==
    /\ (now = 0 /\ last_entry_ms["L1"] = 0)
       => /\ valid_occupancy["L1"] = 0
          /\ pending_entry["L1"] /\ pending_start_ms["L1"] = 0
    /\ now = 5000
       => valid_occupancy["L1"] = 1 /\ ~pending_entry["L1"]
    /\ (now = 5100 /\ last_entry_ms["L1"] = 5100)
       => /\ valid_occupancy["L1"] = 1
          /\ pending_entry["L1"] /\ pending_start_ms["L1"] = 5100
    /\ now = 10100
       => /\ valid_occupancy["L1"] = 2 /\ ~pending_entry["L1"]
          /\ valid_occupancy["L2"] = 2 => state = FULL_ALERT
          /\ valid_occupancy["L2"] < 2 => state = NORMAL

\* The end of the scenario with level 2 full as well: FULL_ALERT at t=10100.
C10_Witness ==
    /\ now = 10100
    /\ event = "tick"
    /\ valid_occupancy = [l \in Levels |-> 2]
    /\ state = FULL_ALERT
    /\ entered = <<FULL_ALERT>>

\* C11: a trip is counted only if its channel has no counted trip yet or more
\* than the cooldown has passed since the last one (exactly the cooldown is
\* not enough); the channel's last-counted timestamp becomes the current time
\* when the trip is counted, keeps its value when the trip is rejected, and
\* is changed by no other step.
C11_DebounceGate ==
    [][\A l \in Levels :
          LET counted == relay' # <<>>
          IN  /\ Handles(EventName(l, "entry", "trip"))
                 => /\ counted => \/ last_entry_ms[l] = None
                                  \/ Since(last_entry_ms[l]) > sensor_cooldown_ms
                    /\ last_entry_ms'[l] = IF counted THEN now ELSE last_entry_ms[l]
              /\ Handles(EventName(l, "exit", "trip"))
                 => /\ counted => \/ last_exit_ms[l] = None
                                  \/ Since(last_exit_ms[l]) > sensor_cooldown_ms
                    /\ last_exit_ms'[l] = IF counted THEN now ELSE last_exit_ms[l]
              /\ last_entry_ms'[l] # last_entry_ms[l]
                 => Handles(EventName(l, "entry", "trip")) /\ counted
              /\ last_exit_ms'[l] # last_exit_ms[l]
                 => Handles(EventName(l, "exit", "trip")) /\ counted]_vars

\* An entry trip exactly one cooldown after the entry counted at time 0, the
\* sensor untripped and nothing pending: rejected, the timestamp kept.
C11_Witness ==
    /\ event = "L1_entry_trip"
    /\ relay = <<>>
    /\ ~entry_tripped["L1"] /\ ~pending_entry["L1"]
    /\ last_entry_ms["L1"] = 0
    /\ now = sensor_cooldown_ms

\* C12: an entry trip on a level whose entry is pending is ignored: pending
\* flag and start time, both counters of the level and the entry channel's
\* last-trip timestamp keep their values and no relay call is made.
C12_EntryWhilePendingIgnored ==
    [][\A l \in Levels :
          (Handles(EventName(l, "entry", "trip")) /\ pending_entry[l])
          => /\ pending_entry'[l]
             /\ pending_start_ms'[l] = pending_start_ms[l]
             /\ occupancy'[l] = occupancy[l]
             /\ valid_occupancy'[l] = valid_occupancy[l]
             /\ last_entry_ms'[l] = last_entry_ms[l]
             /\ entry_tripped'[l] = entry_tripped[l]
             /\ relay' = <<>>]_vars

\* An entry trip of an untripped sensor, a whole dwell window after the entry
\* that is still pending: ignored for the pending entry alone.
C12_Witness ==
    /\ event = "L1_entry_trip"
    /\ relay = <<>>
    /\ ~entry_tripped["L1"]
    /\ pending_entry["L1"] /\ pending_start_ms["L1"] = 0
    /\ last_entry_ms["L1"] = 0
    /\ now = entry_confirm_delay_ms

\* C13 as stated: an entry trip of an untripped entry sensor arriving past the
\* cooldown of its channel is counted, pending entry or not.
C13_Original ==
    [][\A l \in Levels :
          (Handles(EventName(l, "entry", "trip")) /\ ~entry_tripped[l]
             /\ last_entry_ms[l] # None /\ Since(last_entry_ms[l]) > sensor_cooldown_ms)
          => /\ relay' # <<>>
             /\ last_entry_ms'[l] = now]_vars

\* C13 amended: an entry untrip clears the tripped flag of its channel, and a
\* retrip past the cooldown is then counted (pending started, relayed, added
\* to immediate occupancy) exactly when the level has no pending entry; while
\* the earlier entry is pending the retrip is still ignored.
C13_RetripNeedsResolvedEntry ==
    [][\A l \in Levels :
          /\ Handles(EventName(l, "entry", "untrip")) => ~entry_tripped'[l]
          /\ (Handles(EventName(l, "entry", "trip")) /\ ~entry_tripped[l]
                /\ last_entry_ms[l] # None /\ Since(last_entry_ms[l]) > sensor_cooldown_ms)
             => IF pending_entry[l]
                THEN /\ relay' = <<>>
                     /\ occupancy'[l] = occupancy[l]
                     /\ pending_start_ms'[l] = pending_start_ms[l]
                ELSE /\ Len(relay') = 1 /\ relay'[1].sensor_type = "entry"
                     /\ occupancy'[l] = Min(occupancy[l] + 1, capacity[l])
                     /\ pending_entry'[l] /\ pending_start_ms'[l] = now]_vars

\* The retrip of level 1 counted after the entry of time 0 was confirmed.
C13_Witness ==
    /\ event = "L1_entry_trip"
    /\ relay # <<>>
    /\ now = entry_confirm_delay_ms
    /\ last_entry_ms["L1"] = now /\ pending_start_ms["L1"] = now
    /\ last_exit_ms["L1"] = None
    /\ valid_occupancy["L1"] = 1

\* The debounce gate lets a trip of the channel through, judged on the state
\* the trip arrives in.
EntryFresh(l) ==
    /\ ~entry_tripped[l] /\ ~pending_entry[l]
    /\ (last_entry_ms[l] = None \/ Since(last_entry_ms[l]) > sensor_cooldown_ms)
ExitFresh(l) ==
    /\ ~exit_tripped[l]
    /\ (last_exit_ms[l] = None \/ Since(last_exit_ms[l]) > sensor_cooldown_ms)
Max(a, b) == IF a > b THEN a ELSE b

\* C14: an admitted exit trip takes effect in its own step: validated
\* occupancy of its level goes down by one, or stays 0, the pending entry of
\* the level is cancelled if there is one, and validated occupancy of the
\* other level keeps its value.
C14_ExitImmediate ==
    [][\A l \in Levels :
          (Handles(EventName(l, "exit", "trip")) /\ ExitFresh(l))
          => /\ valid_occupancy'[l] = Max(valid_occupancy[l] - 1, 0)
             /\ ~pending_entry'[l] /\ pending_start_ms'[l] = None
             /\ \A m \in Levels \ {l} : valid_occupancy'[m] = valid_occupancy[m]]_vars

\* The exit of level 1 that took the full garage back to NORMAL and cancelled
\* the entry of level 1 counted at the same instant.
C14_Witness ==
    /\ event = "L1_exit_trip"
    /\ relay # <<>>
    /\ entered = <<NORMAL>>
    /\ last_entry_ms["L1"] = now /\ ~pending_entry["L1"]
    /\ valid_occupancy["L1"] = 0
    /\ valid_occupancy["L2"] = capacity["L2"]

\* C15: validated occupancy of a level rises only in a tick that finds the
\* level's pending entry at or past the end of its dwell window, and then by
\* exactly one; no trip, untrip or reset event raises it.
C15_ValidatedRisesOnExpiryOnly ==
    [][\A l \in Levels :
          /\ valid_occupancy'[l] > valid_occupancy[l]
             => /\ Ticks
                /\ pending_entry[l] /\ pending_start_ms[l] # None
                /\ Since(pending_start_ms[l]) >= entry_confirm_delay_ms
                /\ valid_occupancy'[l] = valid_occupancy[l] + 1
          /\ (\E ev \in Events : Handles(ev))
             => valid_occupancy'[l] <= valid_occupancy[l]]_vars

\* The tick at the end of the dwell window of level 2 counted its car, level 1
\* staying empty.
C15_Witness ==
    /\ event = "tick"
    /\ now = entry_confirm_delay_ms
    /\ last_entry_ms["L2"] = 0 /\ ~pending_entry["L2"]
    /\ valid_occupancy["L2"] = 1
    /\ valid_occupancy["L1"] = 0
    /\ display = << capacity["L1"], capacity["L2"] - 1 >>

\* C16: in every tick and every sensor event, immediate occupancy of a level
\* goes up by one, clamped at capacity, exactly on an admitted entry trip of
\* that level, goes down by one, floored at 0, exactly on an admitted exit
\* trip of that level, and keeps its value otherwise: dwell confirmation,
\* cancellation of a pending entry, untrips and rejected trips do not touch
\* it.  (A reset zeroes it: C7.)
C16_ImmediateIsRawCounter ==
    [][\A l \in Levels :
          (Ticks \/ Starts \/ \E ev \in SensorEvents : Handles(ev))
          => occupancy'[l] =
                IF Handles(EventName(l, "entry", "trip")) /\ EntryFresh(l)
                THEN Min(occupancy[l] + 1, capacity[l])
                ELSE IF Handles(EventName(l, "exit", "trip")) /\ ExitFresh(l)
                THEN Max(occupancy[l] - 1, 0)
                ELSE occupancy[l]]_vars

\* An admitted entry trip on a level whose immediate count was at capacity
\* already (its first car confirmed, no exit, no reset since): clamped.
C16_Witness ==
    /\ event = "L1_entry_trip"
    /\ relay # <<>>
    /\ last_exit_ms["L1"] = None
    /\ valid_occupancy["L1"] = capacity["L1"]
    /\ occupancy["L1"] = capacity["L1"]
    /\ pending_entry["L1"] /\ pending_start_ms["L1"] = now

\* C17: a garage reset returns every sensor channel to its initial state,
\* tripped flag cleared and no last counted trip recorded, so that a trip
\* arriving right after the reset is admitted and relayed however recently
\* its channel counted a trip before the reset.
C17_ResetClearsChannels ==
    [][/\ Handles("reset_press")
          => \A l \in Levels :
                /\ ~entry_tripped'[l] /\ ~exit_tripped'[l]
                /\ last_entry_ms'[l] = None /\ last_exit_ms'[l] = None
       /\ \A l \in Levels, d \in Directions :
             (event = "reset_press" /\ Handles(EventName(l, d, "trip")))
             => relay' # <<>>]_vars

\* C18: from the moment the controller runs, the colour last commanded on
\* the strip is steady green whenever the garage is not full, and red or
\* dimmed red whenever it is full.
C18_StripAgreesWithFullness ==
    running => IF AllFull(valid_occupancy)
               THEN strip \in {RED, DIM_RED}
               ELSE strip = GREEN

\* C19: once the controller runs, after every handler and every tick the
\* availability last rendered for each level is capacity minus validated
\* occupancy of that level.
C19_RenderedAvailability ==
    running => display = << capacity["L1"] - valid_occupancy["L1"],
                            capacity["L2"] - valid_occupancy["L2"] >>

\* An exit of level 2 took the full garage out of FULL_ALERT, and the new
\* availability of level 2 was rendered with level 1 still full.
C19_Witness ==
    /\ event = "L2_exit_trip"
    /\ entered = <<NORMAL>>
    /\ valid_occupancy["L1"] = capacity["L1"]
    /\ display = << 0, capacity["L2"] >>
    /\ strip = GREEN

\* C20: an untrip of a channel clears the tripped flag of that channel,
\* whatever the time since its trip, and changes nothing else: counters,
\* pending entries and their start times, last-trip timestamps, the other
\* three tripped flags and the alert state keep their values, no event is
\* raised and no relay call is made.
C20_UntripFrame ==
    [][\A l \in Levels :
          /\ Handles(EventName(l, "entry", "untrip"))
             => /\ entry_tripped' = [entry_tripped EXCEPT ![l] = FALSE]
                /\ exit_tripped' = exit_tripped
          /\ Handles(EventName(l, "exit", "untrip"))
             => /\ exit_tripped' = [exit_tripped EXCEPT ![l] = FALSE]
                /\ entry_tripped' = entry_tripped
          /\ (\E d \in Directions : Handles(EventName(l, d, "untrip")))
             => /\ UNCHANGED << occupancy, valid_occupancy, pending_entry,
                                pending_start_ms, last_entry_ms, last_exit_ms,
                                state, garage_full, flash_on >>
                /\ relay' = <<>> /\ raised' = <<>> /\ entered' = <<>>]_vars

\* The entry channel of level 1 untripped in the instant of its counted trip,
\* well inside the cooldown; the entry stays pending and stamped.
C20_Witness ==
    /\ event = "L1_entry_untrip"
    /\ ~entry_tripped["L1"]
    /\ pending_entry["L1"] /\ pending_start_ms["L1"] = now
    /\ last_entry_ms["L1"] = now
    /\ occupancy["L1"] = 1
    /\ now = entry_confirm_delay_ms

\* C21: a pending entry is never confirmed early and never late.  Validated
\* occupancy of a level rises only in a tick that finds its pending entry at
\* least one dwell window after the recorded start; a tick before that leaves
\* the entry pending and untouched; and a tick at or after it resolves the
\* entry, counting it (clamped at capacity).
C21_ConfirmedAtDwellExpiry ==
    [][\A l \in Levels :
          /\ valid_occupancy'[l] > valid_occupancy[l]
             => /\ Ticks /\ pending_entry[l]
                /\ Since(pending_start_ms[l]) >= entry_confirm_delay_ms
          /\ (Ticks /\ pending_entry[l])
             => IF Since(pending_start_ms[l]) >= entry_confirm_delay_ms
                THEN /\ ~pending_entry'[l] /\ pending_start_ms'[l] = None
                     /\ valid_occupancy'[l] = Min(valid_occupancy[l] + 1, capacity[l])
                ELSE /\ pending_entry'[l]
                     /\ pending_start_ms'[l] = pending_start_ms[l]
                     /\ valid_occupancy'[l] = valid_occupancy[l]]_vars

\* A tick one millisecond before the end of the dwell window of level 1 left
\* its entry pending and uncounted.
C21_Witness ==
    /\ event = "tick"
    /\ pending_entry["L1"] /\ pending_start_ms["L1"] = 0
    /\ now = entry_confirm_delay_ms - 1
    /\ valid_occupancy["L1"] = 0
    /\ occupancy["L1"] = 1

\* C22: under fair ticking every pending entry is eventually resolved: a
\* level that is Pending eventually is Idle again (by confirmation, by an
\* exit or by reset), also when its validated occupancy is at capacity when
\* the dwell window ends.
C22_PendingResolved ==
    \A l \in Levels : pending_entry[l] ~> ~pending_entry[l]

\* A tick at the end of the second dwell window, in a garage that was full
\* already, resolved the entry of level 1 counted at the end of the first.
C22_Witness ==
    /\ event = "tick"
    /\ state = FULL_ALERT /\ entered = <<>>
    /\ elapsed = MaxFairTime
    /\ last_entry_ms["L1"] = entry_confirm_delay_ms
    /\ ~pending_entry["L1"] /\ pending_start_ms["L1"] = None
    /\ valid_occupancy["L1"] = capacity["L1"]

\* C23: while the alert state is FULL_ALERT the flash phase follows a
\* fixed-period cycle.  Entering FULL_ALERT sets the full-intensity phase;
\* every change of the phase inside FULL_ALERT, the first one after the entry
\* included, comes at least one flash period after the previous change; and a
\* tick in FULL_ALERT that finds a full period elapsed since the last change
\* toggles the phase.
C23_FlashCycle ==
    [][/\ (state # FULL_ALERT /\ state' = FULL_ALERT)
          => flash_on' /\ strip' = RED
       /\ (state = FULL_ALERT /\ state' = FULL_ALERT /\ flash_on' # flash_on)
          => /\ flash_changed_ms # None
             /\ Since(flash_changed_ms) >= flash_period_ms
       /\ (Ticks /\ state = FULL_ALERT /\ garage_full
              /\ flash_changed_ms # None
              /\ Since(flash_changed_ms) >= flash_period_ms)
          => flash_on' # flash_on]_vars

\* Real time since the clock read ts, for as long as less than one clock
\* period has passed since.
RealSince(ts) == (now - ts) % TICKS_PERIOD

\* C24: cooldown and dwell decisions are wraparound-safe.  A trip on an
\* untripped channel (no entry pending on its level, for an entry trip) that
\* arrives any real time greater than the cooldown after the last counted
\* trip of the channel is admitted and relayed, and a tick that finds a
\* pending entry whose real elapsed time is at least the dwell window
\* resolves it, also when the clock wrapped in between.
C24_WrapSafe ==
    [][\A l \in Levels :
          /\ (/\ Handles(EventName(l, "entry", "trip"))
              /\ ~entry_tripped[l] /\ ~pending_entry[l]
              /\ last_entry_ms[l] # None
              /\ RealSince(last_entry_ms[l]) > sensor_cooldown_ms)
             => relay' # <<>> /\ last_entry_ms'[l] = now
          /\ (/\ Handles(EventName(l, "exit", "trip"))
              /\ ~exit_tripped[l]
              /\ last_exit_ms[l] # None
              /\ RealSince(last_exit_ms[l]) > sensor_cooldown_ms)
             => relay' # <<>> /\ last_exit_ms'[l] = now
          /\ (/\ Ticks /\ pending_entry[l]
              /\ RealSince(pending_start_ms[l]) >= entry_confirm_delay_ms)
             => ~pending_entry'[l]]_vars

\* C25: levels and channels are isolated.  A trip or untrip of one channel
\* leaves the tripped flag and the last-trip timestamp of the other three
\* channels alone, and an event of one level leaves both counters, the
\* pending flag and the pending start time of the other level alone.
C25_Isolation ==
    [][\A l \in Levels, d \in Directions, k \in {"trip", "untrip"} :
          Handles(EventName(l, d, k))
          => /\ \A m \in Levels \ {l} :
                   /\ occupancy'[m] = occupancy[m]
                   /\ valid_occupancy'[m] = valid_occupancy[m]
                   /\ pending_entry'[m] = pending_entry[m]
                   /\ pending_start_ms'[m] = pending_start_ms[m]
                   /\ entry_tripped'[m] = entry_tripped[m]
                   /\ exit_tripped'[m] = exit_tripped[m]
                   /\ last_entry_ms'[m] = last_entry_ms[m]
                   /\ last_exit_ms'[m] = last_exit_ms[m]
             /\ d = "entry" => /\ exit_tripped'[l] = exit_tripped[l]
                               /\ last_exit_ms'[l] = last_exit_ms[l]
             /\ d = "exit" => /\ entry_tripped'[l] = entry_tripped[l]
                              /\ last_entry_ms'[l] = last_entry_ms[l]]_vars

\* An admitted exit of level 1 with an entry pending on level 2, its entry
\* sensor still tripped: level 2 kept all of it.
C25_Witness ==
    /\ event = "L1_exit_trip"
    /\ relay # <<>>
    /\ pending_entry["L2"] /\ pending_start_ms["L2"] = now
    /\ entry_tripped["L2"]
    /\ occupancy["L2"] = 1
    /\ ~pending_entry["L1"]

\* C26: in every reachable state validated occupancy of a level is at most
\* its immediate occupancy.
C26_ValidatedWithinImmediate ==
    \A l \in Levels : valid_occupancy[l] <= occupancy[l]

\* Level 1 filled at the first dwell expiry, took a second entry against the
\* clamp, and an exit at the second expiry took both counters down together.
C26_Witness ==
    /\ event = "L1_exit_trip"
    /\ relay # <<>>
    /\ now = 2 * entry_confirm_delay_ms
    /\ last_entry_ms["L1"] = entry_confirm_delay_ms
    /\ occupancy["L1"] = 0 /\ valid_occupancy["L1"] = 0
    /\ ~pending_entry["L1"]

\* C27: the flash phase is off whenever the alert state is NORMAL, and the
\* phase is toggled (changed without a change of the alert state) only by a
\* tick that finds the state FULL_ALERT and the garage full.
C27_PhaseOffInNormal ==
    [][/\ state = NORMAL => ~flash_on
       /\ state' = NORMAL => ~flash_on'
       /\ (flash_on' # flash_on /\ state' = state)
          => Ticks /\ state = FULL_ALERT /\ garage_full]_vars

\* An exit of level 1 took the garage out of FULL_ALERT and switched the
\* phase off in the same step.
C27_Witness ==
    /\ event = "L1_exit_trip"
    /\ entered = <<NORMAL>>
    /\ state = NORMAL
    /\ ~flash_on /\ flash_changed_ms = now
    /\ last_flash_ms # now
    /\ strip = GREEN

\* C28: DAL.send_sensor_event called with a sensor type other than "entry"
\* or "exit" raises ValueError and posts nothing; called with "entry" or
\* "exit" it posts exactly one request, carrying the given level id and
\* sensor type, and returns the response of the backend.
C28_SendSensorEvent ==
    dal_out.done
    => IF dal_call.sensor_type \in {"entry", "exit"}
       THEN /\ dal_out.posted = << [level_id |-> dal_call.level_id,
                                   sensor_type |-> dal_call.sensor_type] >>
            /\ dal_call.net_ok
               => /\ ~dal_out.raises
                  /\ dal_out.returned = dal_call.data
       ELSE /\ dal_out.raises /\ dal_out.error = "ValueError"
            /\ dal_out.posted = <<>>

\* A call with the sensor type capitalised, on a working network, failed
\* without posting.
C28_Witness ==
    /\ dal_out.done
    /\ dal_call.sensor_type = "Entry"
    /\ dal_call.level_id = L1_level_id_db
    /\ dal_call.net_ok
    /\ dal_out.error = "ValueError"
    /\ dal_out.posted = <<>>

\* C29: in the feedback station ALARM is entered only through SAD, in the
\* step that handles sad_press in FEEDBACK, and only when, the negative vote
\* counted, the positive share is below 0.2; a sad_press in FEEDBACK ends in
\* ALARM exactly then, else in SAD.  Once in ALARM only sad_press leaves it,
\* to WELCOME: the timer started on entering SAD expires without effect.
\* The alarm flag is true exactly while the state is ALARM.
C29_AlarmOnlyFromSad ==
    [][/\ (fb_state # ALARM /\ fb_state' = ALARM)
          => /\ fb_state = FEEDBACK /\ fb_event' = "sad_press"
             /\ fb_entered' = << SAD, ALARM >>
             /\ fb_negative' = fb_negative + 1 /\ fb_positive' = fb_positive
       /\ (fb_running /\ fb_state = FEEDBACK /\ fb_event' = "sad_press")
          => fb_state' =
                IF ThresholdDen * fb_positive'
                      < ThresholdNum * (fb_positive' + fb_negative')
                THEN ALARM ELSE SAD
       /\ (fb_state = ALARM /\ fb_state' # ALARM)
          => fb_event' = "sad_press" /\ fb_state' = WELCOME
       /\ (fb_state = ALARM /\ fb_event' = "timer_timeout")
          => fb_state' = ALARM /\ fb_alarmon'
       /\ fb_alarmon <=> fb_state = ALARM
       /\ fb_alarmon' <=> fb_state' = ALARM]_vars

\* The first vote was negative, the station went to ALARM, and the timer
\* started on entering SAD has expired there.
C29_Witness ==
    /\ fb_state = ALARM
    /\ fb_event = "timer_timeout"
    /\ fb_timer = 0
    /\ fb_alarmon
    /\ fb_positive = 0 /\ fb_negative = 1
====
